---------------------------- MODULE Spec2Model ----------------------------
(***************************************************************************)
(* The object store of niks3089/endor-coding-test: typed records (Person,  *)
(* Animal) kept in a key-value backend under the composite key             *)
(* id::name::kind, and read back by glob scans of the key space.           *)
(*                                                                         *)
(* The repository holds two revisions of the store: src/db.go and          *)
(* src/unnamed/part_000.  They differ in Store (validation of the name,    *)
(* order of SetID and json.Marshal) and in listObjects (the key handed to  *)
(* extractObject).  The variable `build` says which revision runs.         *)
(*                                                                         *)
(* Strings are sequences of one-character strings, so that the key codec,  *)
(* strings.Count, the regular expression of getKind and the glob match of  *)
(* the backend are computed character by character.                        *)
(*                                                                         *)
(* Specifications: Spec (a backend that answers every call), SpecFault     *)
(* (calls may fail in transport), SpecForeign (the server holds another    *)
(* client's entry), SpecCtx (callers may pass a cancelled context),        *)
(* SpecSetName (a caller renaming its record), SpecGetKind (getKind on its *)
(* own), SpecRace (two callers whose operations interleave at their        *)
(* backend calls).                                                         *)
(***************************************************************************)
EXTENDS Integers, Sequences, FiniteSets, TLC

VARIABLES build, faulty, contexts, backend, rec, nextId, last, run

vars == <<build, faulty, contexts, backend, rec, nextId, last, run>>

-----------------------------------------------------------------------------
(* Bounds *)

\* number of ids uuid.New() hands out in one behaviour
MaxIDs == 2

\* length of the longest key handed to getKind on its own
MaxKeyLen == 4

-----------------------------------------------------------------------------
(* Strings *)

Empty == <<>>

Delim == <<":", ":">>

\* the text of s from position i on (1-based), "" past the end
Tail_(s, i) == SubSeq(s, i, Len(s))

\* sub occurs in s at position i
OccursAt(s, sub, i) ==
    /\ i >= 1
    /\ i + Len(sub) - 1 <= Len(s)
    /\ SubSeq(s, i, i + Len(sub) - 1) = sub

\* strings.Contains
Contains(s, sub) == \E i \in 1..(Len(s) + 1) : OccursAt(s, sub, i)

\* strings.Count: the number of non-overlapping occurrences of sub in s,
\* found left to right
RECURSIVE CountFrom(_, _, _)
CountFrom(s, sub, i) ==
    IF i + Len(sub) - 1 > Len(s) THEN 0
    ELSE IF OccursAt(s, sub, i) THEN 1 + CountFrom(s, sub, i + Len(sub))
    ELSE CountFrom(s, sub, i + 1)

\* a count of all occurrences of sub in s, overlapping ones too
CountOverlapping(s, sub) ==
    Cardinality({i \in 1..Len(s) : OccursAt(s, sub, i)})

Count(s, sub) == CountFrom(s, sub, 1)

\* glob match of the backend's KEYS command: "*" matches any run of
\* characters, every other character matches itself (the strings of the
\* model hold none of the other glob characters "?", "[" and "\").
\* GlobFrom matches the pattern from position i on against the string from
\* position j on; a "*" that ends the pattern matches whatever is left.
RECURSIVE GlobFrom(_, _, _, _)
GlobFrom(p, i, s, j) ==
    IF i > Len(p) THEN j > Len(s)
    ELSE IF p[i] = "*"
         THEN \/ i = Len(p)
              \/ \E k \in j..(Len(s) + 1) : GlobFrom(p, i + 1, s, k)
         ELSE /\ j <= Len(s)
              /\ s[j] = p[i]
              /\ GlobFrom(p, i + 1, s, j + 1)

GlobMatch(p, s) == GlobFrom(p, 1, s, 1)

-----------------------------------------------------------------------------
(* Typed records: src/object.go *)

Types == {"Person", "Animal"}

\* the JSON field names of Person and of Animal (the struct tags)
PersonFields == {"name", "id", "last_name", "birthday", "birthdate"}

AnimalFields == {"name", "id", "type", "owner_id"}

FieldsOf(typ) == IF typ = "Person" THEN PersonFields ELSE AnimalFields

\* an object is a pointer to a struct: its concrete type and its fields
GetName(o) == o.f["name"]

GetID(o) == o.f["id"]

SetID(o, id) == [o EXCEPT !.f["id"] = id]

\* SetName that sets whatever name it is given
SetName_unchecked(o, s) == [err |-> "nil", obj |-> [o EXCEPT !.f["name"] = s]]

\* Person.SetName / Animal.SetName: the error and the object after the call
SetName(o, s) ==
    IF Contains(s, Delim)
    THEN [err |-> "name contains a restricted special character ::",
          obj |-> o]
    ELSE [err |-> "nil", obj |-> [o EXCEPT !.f["name"] = s]]

\* a kind label that does not tell the concrete types apart
GetKind_oneLabel(o) == <<"*", "P">>

\* reflect.TypeOf(p).String() of a *Person is "*main.Person", of an *Animal
\* "*main.Animal": a "*", then letters that tell the two types apart
GetKind(o) == IF o.typ = "Person" THEN <<"*", "P">> ELSE <<"*", "A">>

\* the zero value &Person{} or &Animal{}
ZeroObject(typ) == [typ |-> typ, f |-> [k \in FieldsOf(typ) |-> Empty]]

\* the nil Object returned next to an error
NoObject == [typ |-> "nil", f |-> [name |-> Empty, id |-> Empty]]

\* the records the tests build: getPerson(name) and getAnimal(name)
getPerson(name) ==
    [typ |-> "Person",
     f |-> [name |-> name, id |-> Empty, last_name |-> <<"J">>,
            birthday |-> <<"0">>, birthdate |-> <<"8">>]]

getAnimal(name) ==
    [typ |-> "Animal",
     f |-> [name |-> name, id |-> Empty, type |-> <<"C">>,
            owner_id |-> <<"J">>]]

\* json.Marshal of an object: the field-name-tagged map of its fields
Marshal(o) == o.f

\* a payload that is no JSON object
Malformed == [text |-> <<"{">>]

\* the error of json.Unmarshal
UnmarshalErr(value) ==
    IF value = Malformed THEN "unexpected end of JSON input" ELSE "nil"

\* json.Unmarshal of a payload into a zero object of type typ: the fields
\* the payload names are set, the others keep their zero value, and the
\* payload's fields the type does not have are dropped
Unmarshal(value, typ) ==
    [typ |-> typ,
     f |-> [k \in FieldsOf(typ) |->
              IF k \in DOMAIN value THEN value[k] ELSE Empty]]

\* the text s holds no line feed: the "." of a regular expression matches
\* every character of it
DotStar(s) == \A i \in 1..Len(s) : s[i] # "\n"

\* getKind: the regular expression ^.*::(.*)$ matched against the whole
\* key.  The key matches at position i when "::" is there, and the text before
\* it and the text after it are matched by ".*"; the prefix is greedy, so
\* the submatch is the text after the last such position.  "" when the key
\* does not match.
getKind(key) ==
    LET at == {i \in 1..Len(key) :
                 /\ OccursAt(key, Delim, i)
                 /\ DotStar(SubSeq(key, 1, i - 1))
                 /\ DotStar(Tail_(key, i + Len(Delim)))}
    IN  IF at = {} THEN Empty
        ELSE LET m == CHOOSE i \in at : \A j \in at : j <= i
             IN  Tail_(key, m + Len(Delim))

\* extractObject with one struct for every kind
extractObject_onePerson(key, value) ==
    [err |-> "nil", obj |-> Unmarshal(value, "Person")]

\* extractObject: picks the struct by the kind of the key and unmarshals
\* the value into it; an error for a kind that is neither struct's, and
\* for a value json.Unmarshal rejects
extractObject(key, value) ==
    LET kind == getKind(key)
        typ  == IF kind = GetKind(ZeroObject("Animal")) THEN "Animal"
                ELSE IF kind = GetKind(ZeroObject("Person")) THEN "Person"
                ELSE "nil"
    IN  IF typ = "nil"
        THEN [err |-> "unknown object type", obj |-> NoObject]
        ELSE IF UnmarshalErr(value) # "nil"
        THEN [err |-> UnmarshalErr(value), obj |-> NoObject]
        ELSE [err |-> "nil", obj |-> Unmarshal(value, typ)]

-----------------------------------------------------------------------------
(* Ids and keys *)

\* uuid.New().String(): the n-th id handed out; ids all have the same
\* length, hold no ":" and no "*", and no id is handed out twice
Digits == <<"1", "2", "3", "4", "5">>

NewID(n) == <<Digits[n]>>

\* the key of a record: id::name::kind
KeyOf(id, o) == id \o Delim \o GetName(o) \o Delim \o GetKind(o)

\* the patterns of the three scans
IDPattern(id) == id \o Delim \o <<"*">> \o Delim \o <<"*">>

NamePattern(name) == <<"*">> \o Delim \o name \o Delim \o <<"*">>

KindPattern(kind) == <<"*">> \o Delim \o <<"*">> \o Delim \o kind

-----------------------------------------------------------------------------
(* Inputs of the callers *)

\* names a caller gives a record: empty, plain, with one colon, with the
\* delimiter (the tests set person.Name directly, past SetName)
StoreNames == {Empty, <<"a">>, <<"a", ":">>, <<"a", ":", ":", "b">>}

\* the new records a caller builds
FreshRecords ==
    {getPerson(n) : n \in StoreNames} \cup {getAnimal(n) : n \in StoreNames}

\* the names a caller passes to SetName (the test's "", "ab:c:", "ab::c"
\* among them)
SetNameInputs ==
    StoreNames \cup {<<":">>, <<":", ":">>, <<"*">>,
                     <<"a", "b", ":", "c", ":">>, <<"a", "b", ":", ":", "c">>}

\* the keys handed to getKind on its own: every text of up to MaxKeyLen
\* characters out of a letter, the colon, the hyphen and the line feed
KeyAlphabet == {"a", ":", "-", "\n"}

GetKindInputs == UNION {[1..n -> KeyAlphabet] : n \in 0..MaxKeyLen}

\* the records and ids of the keys that Store writes and getKind is then
\* given: names that begin or end with a colon or hold a line feed, a
\* hyphenated uuid
KindNames == {<<"a">>, <<":", "a">>, <<"a", ":">>, <<"a", "\n", "b">>}

KindRecords ==
    {getPerson(n) : n \in KindNames} \cup {getAnimal(n) : n \in KindNames}

KindIDs == {NewID(1), <<"1", "-", "2">>}

\* the contexts a caller may pass
Contexts == {"live", "cancelled"}

\* the records a caller passes to Store: a new record, or once more the
\* record it passed last, which carries the id of that call
StoreInputs == FreshRecords \cup {rec}

\* ids a caller asks for: the ids Store hands out (unknown while not handed
\* out or once deleted), the empty id and the wildcard
QueryIDs == {NewID(n) : n \in 1..MaxIDs} \cup {Empty, <<"*">>}

\* names a caller asks for
QueryNames == StoreNames \cup {<<"*">>}

\* kinds a caller asks for: the labels of GetKind, the bare type name (no
\* record's kind) and the empty kind
QueryKinds == {<<"*", "P">>, <<"*", "A">>, <<"P">>, Empty}

-----------------------------------------------------------------------------
(* The backend: a map from key to payload, with set, get, keys, delete *)

\* the keys KEYS pattern answers with, as a set.  The glob match of the
\* patterns and keys that the callers' inputs give rise to is tabulated
\* once; any other pattern or key is matched on the spot.
CallerKeys ==
    {KeyOf(NewID(n), o) : n \in 1..MaxIDs, o \in FreshRecords}

CallerPatterns ==
    {IDPattern(id) : id \in QueryIDs}
        \cup {NamePattern(n) : n \in QueryNames}
        \cup {KindPattern(k) : k \in QueryKinds}

GlobTable == [p \in CallerPatterns |-> {k \in CallerKeys : GlobMatch(p, k)}]

Matching(b, pattern) ==
    {k \in DOMAIN b :
        IF pattern \in CallerPatterns /\ k \in CallerKeys
        THEN k \in GlobTable[pattern]
        ELSE GlobMatch(pattern, k)}


\* KEYS gives the matching keys in no particular order: every ordering of
\* the set S as a list
RECURSIVE Orderings(_)
Orderings(S) ==
    IF S = {} THEN {<<>>}
    ELSE UNION {{<<k>> \o ks : ks \in Orderings(S \ {k})} : k \in S}

\* SET key value
Set(b, key, value) ==
    [k \in DOMAIN b \cup {key} |-> IF k = key THEN value ELSE b[k]]

\* DEL key
Del(b, key) == [k \in DOMAIN b \ {key} |-> b[k]]

-----------------------------------------------------------------------------
(* The object store: src/db.go and src/unnamed/part_000 *)

Builds == {"db.go", "part_000"}

\* In every operation below, fail is the backend call of the operation that
\* fails in transport: 0 for none, 1 for its first call, 2 for its second,
\* and so on.

\* Store that keeps the id the record already carries
Store_keepID(o, id, b, fail) ==
    LET kept   == IF GetID(o) # Empty THEN GetID(o) ELSE id
        value  == Marshal(o)
        object == SetID(o, kept)
        key    == KeyOf(kept, object)
    IN  IF Count(key, Delim) # 2
        THEN [err |-> "unexpected restricted delimiter in the key",
              obj |-> object, b |-> b, gen |-> TRUE, calls |-> 0]
        ELSE IF fail = 1
        THEN [err |-> "backend", obj |-> object, b |-> b, gen |-> TRUE,
              calls |-> 1]
        ELSE [err |-> "nil", obj |-> object, b |-> Set(b, key, value),
              gen |-> TRUE, calls |-> 1]

\* Store that writes the entry and counts the delimiters afterwards
Store_setFirst(o, id, b, fail) ==
    LET value  == Marshal(o)
        object == SetID(o, id)
        key    == KeyOf(id, object)
    IN  IF fail = 1
        THEN [err |-> "backend", obj |-> object, b |-> b, gen |-> TRUE,
              calls |-> 1]
        ELSE IF Count(key, Delim) # 2
        THEN [err |-> "unexpected restricted delimiter in the key",
              obj |-> object, b |-> Set(b, key, value), gen |-> TRUE,
              calls |-> 1]
        ELSE [err |-> "nil", obj |-> object, b |-> Set(b, key, value),
              gen |-> TRUE, calls |-> 1]

\* Store of src/db.go.  o is the caller's record, id the new uuid, b the
\* backend.  The result: the error, the caller's record and the backend
\* after the call, whether a uuid was drawn, and the number of backend
\* calls issued.
Store_db(o, id, b, fail) ==
    LET value  == Marshal(o)
        object == SetID(o, id)
        key    == KeyOf(id, object)
    IN  IF Count(key, Delim) # 2
        THEN [err |-> "unexpected restricted delimiter in the key",
              obj |-> object, b |-> b, gen |-> TRUE, calls |-> 0]
        ELSE IF fail = 1
        THEN [err |-> "backend", obj |-> object, b |-> b, gen |-> TRUE,
              calls |-> 1]
        ELSE [err |-> "nil", obj |-> object, b |-> Set(b, key, value),
              gen |-> TRUE, calls |-> 1]

\* Store of src/unnamed/part_000
Store_part000(o, id, b, fail) ==
    IF GetName(o) = Empty
    THEN [err |-> "missing object name", obj |-> o, b |-> b, gen |-> FALSE,
          calls |-> 0]
    ELSE IF GetKind(o) = Empty
    THEN [err |-> "missing object kind", obj |-> o, b |-> b, gen |-> FALSE,
          calls |-> 0]
    ELSE
    LET object == SetID(o, id)
        value  == Marshal(object)
        key    == KeyOf(id, object)
    IN  IF Count(key, Delim) # 2
        THEN [err |-> "unexpected restricted delimiter in the key",
              obj |-> object, b |-> b, gen |-> TRUE, calls |-> 0]
        ELSE IF fail = 1
        THEN [err |-> "backend", obj |-> object, b |-> b, gen |-> TRUE,
              calls |-> 1]
        ELSE [err |-> "nil", obj |-> object, b |-> Set(b, key, value),
              gen |-> TRUE, calls |-> 1]

StoreResult(bld, o, id, b, fail) ==
    IF bld = "db.go" THEN Store_db(o, id, b, fail)
    ELSE Store_part000(o, id, b, fail)

\* the loop of listObjects in src/db.go: keys is the answer of KEYS, i the
\* position of the loop, objects the list so far; the GET of position i is
\* the call 1 + i of the operation.  extractObject is given keys[0].  The
\* result: the error, the objects, and the number of backend calls issued.
RECURSIVE loop_db(_, _, _, _, _)
loop_db(b, keys, i, objects, fail) ==
    IF i > Len(keys)
    THEN [err |-> "nil", out |-> objects, calls |-> 1 + Len(keys)]
    ELSE IF fail = 1 + i
    THEN [err |-> "backend", out |-> <<>>, calls |-> 1 + i]
    ELSE LET value == b[keys[i]]
             x == extractObject(keys[1], value)
         IN  IF x.err # "nil"
             THEN [err |-> x.err, out |-> <<>>, calls |-> 1 + i]
             ELSE loop_db(b, keys, i + 1, Append(objects, x.obj), fail)

\* the loop of listObjects in src/unnamed/part_000: extractObject is given
\* the key of the value
RECURSIVE loop_part000(_, _, _, _, _)
loop_part000(b, keys, i, objects, fail) ==
    IF i > Len(keys)
    THEN [err |-> "nil", out |-> objects, calls |-> 1 + Len(keys)]
    ELSE IF fail = 1 + i
    THEN [err |-> "backend", out |-> <<>>, calls |-> 1 + i]
    ELSE LET value == b[keys[i]]
             x == extractObject(keys[i], value)
         IN  IF x.err # "nil"
             THEN [err |-> x.err, out |-> <<>>, calls |-> 1 + i]
             ELSE loop_part000(b, keys, i + 1, Append(objects, x.obj), fail)

\* listObjects that returns from inside the loop, after the first object
listObjects_firstOnly(bld, b, keys, fail) ==
    IF fail = 1 THEN [err |-> "backend", out |-> <<>>, calls |-> 1]
    ELSE IF Len(keys) = 0 THEN [err |-> "nil", out |-> <<>>, calls |-> 1]
    ELSE loop_part000(b, <<keys[1]>>, 1, <<>>, fail)

\* listObjects: keys is what KEYS pattern answers
listObjects(bld, b, keys, fail) ==
    IF fail = 1 THEN [err |-> "backend", out |-> <<>>, calls |-> 1]
    ELSE IF Len(keys) = 0 THEN [err |-> "nil", out |-> <<>>, calls |-> 1]
    ELSE IF bld = "db.go" THEN loop_db(b, keys, 1, <<>>, fail)
    ELSE loop_part000(b, keys, 1, <<>>, fail)

\* GetObjectsByName that scans whatever name it is given
GetObjectsByNameResult_noCheck(bld, b, name, keys, fail) ==
    listObjects(bld, b, keys, fail)

\* GetObjectsByName: keys is the answer to KEYS *::name::*
GetObjectsByNameResult(bld, b, name, keys, fail) ==
    IF name = Empty
    THEN [err |-> "invalid request. empty name", out |-> <<>>, calls |-> 0]
    ELSE listObjects(bld, b, keys, fail)

\* ListObjects: keys is the answer to KEYS *::*::kind
ListObjectsResult(bld, b, kind, keys, fail) ==
    IF kind = Empty
    THEN [err |-> "invalid request. empty kind", out |-> <<>>, calls |-> 0]
    ELSE listObjects(bld, b, keys, fail)

\* GetObjectByID that takes the first of several matches
GetObjectByIDResult_first(b, keys, fail) ==
    IF fail = 1 THEN [err |-> "backend", obj |-> NoObject, calls |-> 1]
    ELSE IF Len(keys) = 0
    THEN [err |-> "object not found", obj |-> NoObject, calls |-> 1]
    ELSE IF fail = 2 THEN [err |-> "backend", obj |-> NoObject, calls |-> 2]
    ELSE LET x == extractObject(keys[1], b[keys[1]])
         IN  [err |-> x.err, obj |-> x.obj, calls |-> 2]

\* GetObjectByID: keys is the answer to KEYS id::*::*
GetObjectByIDResult(b, keys, fail) ==
    IF fail = 1 THEN [err |-> "backend", obj |-> NoObject, calls |-> 1]
    ELSE IF Len(keys) = 0
    THEN [err |-> "object not found", obj |-> NoObject, calls |-> 1]
    ELSE IF Len(keys) > 1
    THEN [err |-> "multiple objects with the same ID", obj |-> NoObject,
          calls |-> 1]
    ELSE IF fail = 2 THEN [err |-> "backend", obj |-> NoObject, calls |-> 2]
    ELSE LET x == extractObject(keys[1], b[keys[1]])
         IN  [err |-> x.err, obj |-> x.obj, calls |-> 2]

\* DeleteObject that deletes every key the scan matched
DeleteObjectResult_all(b, keys, fail) ==
    IF fail = 1 THEN [err |-> "backend", b |-> b, calls |-> 1]
    ELSE IF Len(keys) = 0 THEN [err |-> "nil", b |-> b, calls |-> 1]
    ELSE IF fail = 2 THEN [err |-> "backend", b |-> b, calls |-> 2]
    ELSE [err |-> "nil",
          b |-> [k \in DOMAIN b \ {keys[i] : i \in 1..Len(keys)} |-> b[k]],
          calls |-> 1 + Len(keys)]

\* DeleteObject: keys is the answer to KEYS id::*::*
DeleteObjectResult(b, keys, fail) ==
    IF fail = 1 THEN [err |-> "backend", b |-> b, calls |-> 1]
    ELSE IF Len(keys) = 0 THEN [err |-> "nil", b |-> b, calls |-> 1]
    ELSE IF Len(keys) > 1
    THEN [err |-> "multiple objects with the same ID", b |-> b, calls |-> 1]
    ELSE IF fail = 2 THEN [err |-> "backend", b |-> b, calls |-> 2]
    ELSE [err |-> "nil", b |-> Del(b, keys[1]), calls |-> 2]

-----------------------------------------------------------------------------
(* The operations backend call by backend call *)

\* An operation in flight: the operation and its argument, where it stands
\* (idle: not called; fetch: KEYS has answered and GET of keys[i] is next;
\* del: KEYS has answered and DEL is next; done: it has returned), the keys
\* KEYS answered, the objects read so far, and the error returned.  pre is
\* the backend as KEYS saw it, and raced says that another caller has since
\* deleted one of these keys while the operation was reading.
Run(op, arg, pc, keys, i, out, err, pre, raced) ==
    [op |-> op, arg |-> arg, pc |-> pc, keys |-> keys, i |-> i, out |-> out,
     err |-> err, pre |-> pre, raced |-> raced]

Idle == Run("none", Empty, "idle", <<>>, 0, <<>>, "nil", <<>>, FALSE)

\* GetObjectByID up to the answer keys of KEYS id::*::* on backend b
GetObjectByID_scan(id, keys, b) ==
    IF Len(keys) = 0
    THEN Run("GetObjectByID", id, "done", keys, 0, <<>>, "object not found",
             b, FALSE)
    ELSE IF Len(keys) > 1
    THEN Run("GetObjectByID", id, "done", keys, 0, <<>>,
             "multiple objects with the same ID", b, FALSE)
    ELSE Run("GetObjectByID", id, "fetch", keys, 1, <<>>, "nil", b, FALSE)

\* GetObjectByID from GET keys[0] on: GET of a key that is gone answers
\* redis.Nil, which is returned as the error
GetObjectByID_fetch(r, b) ==
    LET key == r.keys[1]
    IN  IF key \notin DOMAIN b
        THEN [r EXCEPT !.pc = "done", !.err = "redis: nil"]
        ELSE LET x == extractObject(key, b[key])
             IN  [r EXCEPT !.pc = "done", !.err = x.err,
                           !.out = IF x.err = "nil" THEN <<x.obj>> ELSE <<>>]

\* GetObjectsByName and ListObjects up to the answer of KEYS in listObjects
listObjects_scan(op, arg, keys, b) ==
    IF arg = Empty
    THEN Run(op, arg, "done", <<>>, 0, <<>>,
             IF op = "GetObjectsByName" THEN "invalid request. empty name"
             ELSE "invalid request. empty kind", b, FALSE)
    ELSE IF Len(keys) = 0
    THEN Run(op, arg, "done", keys, 0, <<>>, "nil", b, FALSE)
    ELSE Run(op, arg, "fetch", keys, 1, <<>>, "nil", b, FALSE)

\* one round of the loop of listObjects: GET keys[i], extractObject, append
listObjects_fetch(bld, r, b) ==
    LET key == r.keys[r.i]
    IN  IF key \notin DOMAIN b
        THEN [r EXCEPT !.pc = "done", !.err = "redis: nil", !.out = <<>>]
        ELSE LET x == extractObject(IF bld = "db.go" THEN r.keys[1] ELSE key,
                                    b[key])
             IN  IF x.err # "nil"
                 THEN [r EXCEPT !.pc = "done", !.err = x.err, !.out = <<>>]
                 ELSE [r EXCEPT !.out = Append(r.out, x.obj),
                                !.i = r.i + 1,
                                !.pc = IF r.i = Len(r.keys) THEN "done"
                                       ELSE "fetch"]

\* DeleteObject up to the answer keys of KEYS id::*::*
DeleteObject_scan(id, keys, b) ==
    IF Len(keys) = 0
    THEN Run("DeleteObject", id, "done", keys, 0, <<>>, "nil", b, FALSE)
    ELSE IF Len(keys) > 1
    THEN Run("DeleteObject", id, "done", keys, 0, <<>>,
             "multiple objects with the same ID", b, FALSE)
    ELSE Run("DeleteObject", id, "del", keys, 1, <<>>, "nil", b, FALSE)

\* DeleteObject whose DEL of a key that is gone is an error
DeleteObject_del_strict(r, b) ==
    IF r.keys[1] \notin DOMAIN b
    THEN [run |-> [r EXCEPT !.pc = "done", !.err = "redis: nil"], b |-> b]
    ELSE [run |-> [r EXCEPT !.pc = "done"], b |-> Del(b, r.keys[1])]

\* DeleteObject from DEL keys[0] on: DEL answers the number of keys it
\* removed, and no error when the key is gone.  The result: the operation
\* and the backend afterwards.
DeleteObject_del(r, b) ==
    [run |-> [r EXCEPT !.pc = "done"], b |-> Del(b, r.keys[1])]

-----------------------------------------------------------------------------
(* State machine *)

\* the record of the last call: the operation, the context and the argument
\* passed, the record passed to Store or SetName as it was before the call,
\* the uuid Store drew, the error returned, the keys of the scan that the
\* call went on to read or delete, the objects returned, the number of
\* backend calls issued, and the backend before the call
Call(op, ctx, arg, in, id, err, keys, out, calls, pre) ==
    [op |-> op, ctx |-> ctx, arg |-> arg, in |-> in, id |-> id, err |-> err,
     keys |-> keys, out |-> out, calls |-> calls, pre |-> pre]

NoCall == Call("none", "live", Empty, NoObject, Empty, "nil", <<>>, <<>>, 0,
               <<>>)

\* the backend calls of an operation with n backend calls that may fail in
\* transport: none while the connection to the backend is sound
Fails(n) == IF faulty THEN 0..n ELSE {0}

\* what the server may hold when the store connects to it, written by
\* another client: an entry whose key names no known kind, or an entry
\* whose value is no JSON object
ForeignBackends ==
    {[k \in {<<"9">> \o Delim \o <<"a">> \o Delim \o <<"X">>} |->
         Marshal(SetID(getPerson(<<"a">>), <<"9">>))],
     [k \in {KeyOf(<<"8">>, getPerson(<<"a">>))} |-> Malformed]}

\* the callers whose operations interleave
Callers == {"c1", "c2"}

\* what the interleaving callers pass: records of both types under one
\* name, that name, both kind labels, and the ids Store has handed out
RaceRecords == {getPerson(<<"a">>), getAnimal(<<"a">>)}

RaceNames == {<<"a">>}

RaceKinds == {<<"*", "P">>, <<"*", "A">>}

RaceIDs == {NewID(n) : n \in 1..(nextId - 1)}

Start ==
    /\ build \in Builds
    /\ rec = getPerson(<<"a">>)
    /\ nextId = 1
    /\ last = NoCall
    /\ run = [c \in Callers |-> Idle]

\* a backend that answers every call, callers that pass live contexts
Init ==
    /\ Start
    /\ faulty = FALSE
    /\ contexts = {"live"}
    /\ backend = <<>>

\* a backend whose calls may fail in transport
InitFault ==
    /\ Start
    /\ faulty = TRUE
    /\ contexts = {"live"}
    /\ backend = <<>>

\* a backend that answers every call and holds another client's entry
InitForeign ==
    /\ Start
    /\ faulty = FALSE
    /\ contexts = {"live"}
    /\ backend \in ForeignBackends

\* callers that may pass a cancelled context
InitCtx ==
    /\ Start
    /\ faulty = FALSE
    /\ contexts = Contexts
    /\ backend = <<>>

\* no store call made: getKind is called on its own
InitGetKind ==
    /\ Start
    /\ faulty = FALSE
    /\ contexts = {"live"}
    /\ backend = <<>>

\* two callers, no operation called yet
InitRace ==
    /\ Start
    /\ faulty = FALSE
    /\ contexts = {"live"}
    /\ backend = <<>>

\* a caller that holds any new record and only renames it
InitSetName ==
    /\ build \in Builds
    /\ rec \in FreshRecords
    /\ nextId = 1
    /\ last = NoCall
    /\ run = [c \in Callers |-> Idle]
    /\ faulty = FALSE
    /\ contexts = {"live"}
    /\ backend = <<>>

\* the operations take ctx and never read it
Store ==
    /\ nextId <= MaxIDs
    /\ \E ctx \in contexts, o \in StoreInputs, fail \in Fails(1) :
         LET r == StoreResult(build, o, NewID(nextId), backend, fail)
         IN  /\ backend' = r.b
             /\ rec' = r.obj
             /\ nextId' = IF r.gen THEN nextId + 1 ELSE nextId
             /\ last' = Call("Store", ctx, Empty, o,
                             IF r.gen THEN NewID(nextId) ELSE Empty,
                             r.err, <<>>, <<>>, r.calls, backend)
    /\ UNCHANGED <<run, build, faulty, contexts>>

GetObjectByID ==
    /\ \E ctx \in contexts, id \in QueryIDs, fail \in Fails(2) :
         \E keys \in Orderings(Matching(backend, IDPattern(id))) :
           LET r == GetObjectByIDResult(backend, keys, fail)
           IN  last' = Call("GetObjectByID", ctx, id, NoObject, Empty, r.err,
                            IF fail = 1 \/ Len(keys) > 1 THEN <<>> ELSE keys,
                            IF r.err = "nil" THEN <<r.obj>> ELSE <<>>,
                            r.calls, backend)
    /\ UNCHANGED <<run, build, faulty, contexts, backend, rec, nextId>>

GetObjectsByName ==
    /\ \E ctx \in contexts, name \in QueryNames :
         \E keys \in Orderings(Matching(backend, NamePattern(name))) :
           \E fail \in Fails(1 + Len(keys)) :
             LET r == GetObjectsByNameResult(build, backend, name, keys,
                                             fail)
             IN  last' = Call("GetObjectsByName", ctx, name, NoObject, Empty,
                              r.err,
                              IF fail = 1 \/ name = Empty THEN <<>> ELSE keys,
                              r.out, r.calls, backend)
    /\ UNCHANGED <<run, build, faulty, contexts, backend, rec, nextId>>

ListObjects ==
    /\ \E ctx \in contexts, kind \in QueryKinds :
         \E keys \in Orderings(Matching(backend, KindPattern(kind))) :
           \E fail \in Fails(1 + Len(keys)) :
             LET r == ListObjectsResult(build, backend, kind, keys, fail)
             IN  last' = Call("ListObjects", ctx, kind, NoObject, Empty,
                              r.err,
                              IF fail = 1 \/ kind = Empty THEN <<>> ELSE keys,
                              r.out, r.calls, backend)
    /\ UNCHANGED <<run, build, faulty, contexts, backend, rec, nextId>>

DeleteObject ==
    /\ \E ctx \in contexts, id \in QueryIDs, fail \in Fails(2) :
         \E keys \in Orderings(Matching(backend, IDPattern(id))) :
           LET r == DeleteObjectResult(backend, keys, fail)
           IN  /\ backend' = r.b
               /\ last' = Call("DeleteObject", ctx, id, NoObject, Empty,
                               r.err,
                               IF fail = 1 \/ Len(keys) > 1 THEN <<>>
                               ELSE keys,
                               <<>>, r.calls, backend)
    /\ UNCHANGED <<run, build, faulty, contexts, rec, nextId>>

\* the caller renames its record
CallSetName ==
    /\ \E s \in SetNameInputs :
         LET r == SetName(rec, s)
         IN  /\ rec' = r.obj
             /\ last' = Call("SetName", "live", s, rec, Empty, r.err, <<>>,
                             <<>>, 0, backend)
    /\ UNCHANGED <<run, build, faulty, contexts, backend, nextId>>

\* getKind is called with a key
CallGetKind ==
    /\ \E key \in GetKindInputs :
         last' = Call("getKind", "live", key, NoObject, Empty, "nil", <<>>,
                      <<getKind(key)>>, 0, backend)
    /\ UNCHANGED <<run, build, faulty, contexts, backend, rec, nextId>>

\* getKind is called with the key that Store has written for a record (as
\* extractObject calls it on a read)
CallGetKindOfStored ==
    /\ \E o \in KindRecords, id \in KindIDs :
         LET r == StoreResult(build, o, id, <<>>, 0)
         IN  /\ r.err = "nil"
             /\ \E key \in DOMAIN r.b :
                  last' = Call("getKind", "live", key, o, id, "nil", <<key>>,
                               <<getKind(key)>>, 0, backend)
    /\ UNCHANGED <<run, build, faulty, contexts, backend, rec, nextId>>

\* Store has one backend call, SET: it takes effect in one step
StoreStep ==
    /\ nextId <= MaxIDs
    /\ \E o \in RaceRecords :
         LET r == StoreResult(build, o, NewID(nextId), backend, 0)
         IN  /\ backend' = r.b
             /\ nextId' = IF r.gen THEN nextId + 1 ELSE nextId
    /\ UNCHANGED <<run, build, faulty, contexts, rec, last>>

\* a caller calls GetObjectByID, and KEYS answers
ScanGetObjectByID ==
    /\ \E c \in Callers, id \in RaceIDs :
         /\ run[c].pc = "idle"
         /\ \E keys \in Orderings(Matching(backend, IDPattern(id))) :
              run' = [run EXCEPT ![c] = GetObjectByID_scan(id, keys, backend)]
    /\ UNCHANGED <<build, faulty, contexts, backend, rec, nextId, last>>

\* GET answers and GetObjectByID returns
FetchGetObjectByID ==
    /\ \E c \in Callers :
         /\ run[c].op = "GetObjectByID"
         /\ run[c].pc = "fetch"
         /\ run' = [run EXCEPT ![c] = GetObjectByID_fetch(run[c], backend)]
    /\ UNCHANGED <<build, faulty, contexts, backend, rec, nextId, last>>

\* a caller calls GetObjectsByName, and KEYS answers
ScanGetObjectsByName ==
    /\ \E c \in Callers, name \in RaceNames :
         /\ run[c].pc = "idle"
         /\ \E keys \in Orderings(Matching(backend, NamePattern(name))) :
              run' = [run EXCEPT ![c] = listObjects_scan("GetObjectsByName",
                                                         name, keys, backend)]
    /\ UNCHANGED <<build, faulty, contexts, backend, rec, nextId, last>>

\* a caller calls ListObjects, and KEYS answers
ScanListObjects ==
    /\ \E c \in Callers, kind \in RaceKinds :
         /\ run[c].pc = "idle"
         /\ \E keys \in Orderings(Matching(backend, KindPattern(kind))) :
              run' = [run EXCEPT ![c] = listObjects_scan("ListObjects", kind,
                                                         keys, backend)]
    /\ UNCHANGED <<build, faulty, contexts, backend, rec, nextId, last>>

\* GET of the next key of listObjects answers
FetchListObjects ==
    /\ \E c \in Callers :
         /\ run[c].op \in {"GetObjectsByName", "ListObjects"}
         /\ run[c].pc = "fetch"
         /\ run' = [run EXCEPT ![c] = listObjects_fetch(build, run[c],
                                                        backend)]
    /\ UNCHANGED <<build, faulty, contexts, backend, rec, nextId, last>>

\* a caller calls DeleteObject, and KEYS answers
ScanDeleteObject ==
    /\ \E c \in Callers, id \in RaceIDs :
         /\ run[c].pc = "idle"
         /\ \E keys \in Orderings(Matching(backend, IDPattern(id))) :
              run' = [run EXCEPT ![c] = DeleteObject_scan(id, keys, backend)]
    /\ UNCHANGED <<build, faulty, contexts, backend, rec, nextId, last>>

\* DEL answers and DeleteObject returns.  The other caller, when it is
\* reading and KEYS gave it the key that is removed now, has been raced.
DelDeleteObject ==
    /\ \E c \in Callers :
         /\ run[c].op = "DeleteObject"
         /\ run[c].pc = "del"
         /\ LET r == DeleteObject_del(run[c], backend)
                key == run[c].keys[1]
            IN  /\ backend' = r.b
                /\ run' = [d \in Callers |->
                             IF d = c THEN r.run
                             ELSE IF /\ run[d].pc = "fetch"
                                     /\ key \in DOMAIN backend
                                     /\ \E i \in 1..Len(run[d].keys) :
                                          run[d].keys[i] = key
                             THEN [run[d] EXCEPT !.raced = TRUE]
                             ELSE run[d]]
    /\ UNCHANGED <<build, faulty, contexts, rec, nextId, last>>

Next ==
    \/ Store
    \/ GetObjectByID
    \/ GetObjectsByName
    \/ ListObjects
    \/ DeleteObject

NextSetName == CallSetName

NextGetKind ==
    \/ CallGetKind
    \/ CallGetKindOfStored

NextRace ==
    \/ StoreStep
    \/ ScanGetObjectByID
    \/ FetchGetObjectByID
    \/ ScanGetObjectsByName
    \/ ScanListObjects
    \/ FetchListObjects
    \/ ScanDeleteObject
    \/ DelDeleteObject

\* the store on a backend that answers every call: what a call returns is
\* then decided by the store alone
Spec == Init /\ [][Next]_vars

\* the store on a backend whose calls may fail in transport
SpecFault == InitFault /\ [][Next]_vars

\* the store on a server that another client has written to
SpecForeign == InitForeign /\ [][Next]_vars

\* the store on a sound backend, called with live and cancelled contexts
SpecCtx == InitCtx /\ [][Next]_vars

\* SetName on the records of a caller
SpecSetName == InitSetName /\ [][NextSetName]_vars

\* getKind on keys of every form and on the keys Store writes
SpecGetKind == InitGetKind /\ [][NextGetKind]_vars

\* two callers whose operations interleave at their backend calls, and
\* Stores in between
SpecRace == InitRace /\ [][NextRace]_vars

-----------------------------------------------------------------------------
(* Notions the properties are stated in *)

\* the id segment of a key: the text before its first "::" (an id holds no
\* colon)
KeyID(key) ==
    LET at == {i \in 1..Len(key) : OccursAt(key, Delim, i)}
    IN  IF at = {} THEN key
        ELSE SubSeq(key, 1, (CHOOSE i \in at : \A j \in at : i <= j) - 1)

\* the record serialized under key k of backend b, with the concrete type
\* that has the payload's fields
RecordOf(b, k) ==
    [typ |-> IF DOMAIN b[k] = PersonFields THEN "Person" ELSE "Animal",
     f |-> b[k]]

\* o and r are of the same concrete type and agree on every field but id
SameButID(o, r) ==
    /\ o.typ = r.typ
    /\ \A k \in FieldsOf(r.typ) \ {"id"} : o.f[k] = r.f[k]

\* what GetObjectByID(id) can return on backend b when no call fails
GetByIDOutcomes(b, id) ==
    {GetObjectByIDResult(b, keys, 0) :
        keys \in Orderings(Matching(b, IDPattern(id)))}

\* what DeleteObject(id) can leave of backend b when no call fails
DeleteOutcomes(b, id) ==
    {DeleteObjectResult(b, keys, 0) :
        keys \in Orderings(Matching(b, IDPattern(id)))}

\* the entry of id in backend b, if any
EntriesOf(b, id) == {k \in DOMAIN b : KeyID(k) = id}

\* a name Store is meant to accept
ValidName(name) == name # Empty /\ ~Contains(name, Delim)

-----------------------------------------------------------------------------
(* C1 *)

-----------------------------------------------------------------------------
(* C2 *)

\* C2: Store assigns the new id before it serializes the record, so every
\* entry's payload carries the id of its own key, and the objects a read
\* returns report the id under which their entry is stored.  (Stated for
\* the entries of records with a non-empty name.)
C2_PayloadCarriesKeyID ==
    /\ \A k \in DOMAIN backend :
         ValidName(backend[k]["name"]) => backend[k]["id"] = KeyID(k)
    /\ (last.op \in {"GetObjectByID", "GetObjectsByName", "ListObjects"}
        /\ last.err = "nil")
       => \A i \in 1..Len(last.out) :
            ValidName(GetName(last.out[i]))
            => GetID(last.out[i]) = KeyID(last.keys[i])

-----------------------------------------------------------------------------
(* C3 *)

-----------------------------------------------------------------------------
(* C4 *)

\* C4: delimiter rejection.  Store of a record whose name contains "::"
\* returns an error and writes nothing; Store of a record whose name holds
\* a colon but no "::" succeeds and writes exactly one entry, under the
\* record's new id.
C4_DelimiterRejection ==
    last.op = "Store" =>
      /\ Contains(GetName(last.in), Delim)
         => last.err # "nil" /\ backend = last.pre
      /\ (Contains(GetName(last.in), <<":">>)
          /\ ~Contains(GetName(last.in), Delim))
         => /\ last.err = "nil"
            /\ \E k \in DOMAIN backend :
                 /\ k \notin DOMAIN last.pre
                 /\ KeyID(k) = GetID(rec)
                 /\ DOMAIN backend = DOMAIN last.pre \cup {k}
            /\ \A k \in DOMAIN last.pre : backend[k] = last.pre[k]

\* a name with the delimiter was refused while the backend held an entry
C4_Witness ==
    /\ last.op = "Store"
    /\ Contains(GetName(last.in), Delim)
    /\ last.err = "unexpected restricted delimiter in the key"
    /\ DOMAIN backend # {}

-----------------------------------------------------------------------------
(* C5 *)

\* C5: Store of a record whose name is empty, or whose kind is empty,
\* returns an error and writes nothing.
C5_EmptyNameRejected ==
    (/\ last.op = "Store"
     /\ (GetName(last.in) = Empty \/ GetKind(last.in) = Empty))
    => last.err # "nil" /\ backend = last.pre

-----------------------------------------------------------------------------
(* C6 *)

\* the keys of backend b whose record has name n
NamedKeys(b, n) == {k \in DOMAIN b : RecordOf(b, k).f["name"] = n}

\* the keys of backend b whose record is of concrete type typ
TypedKeys(b, typ) == {k \in DOMAIN b : RecordOf(b, k).typ = typ}

\* the positions of key k in the list of keys
PositionsOf(keys, k) == {i \in 1..Len(keys) : keys[i] = k}

-----------------------------------------------------------------------------
(* C7 *)

-----------------------------------------------------------------------------
(* C8 *)

\* C8: GetObjectByID never picks among several matches.  With no key
\* matching the id pattern it returns "object not found"; with more than
\* one it returns "multiple objects with the same ID" and no object; with
\* exactly one it returns the record of that key.
C8_NoSilentPick ==
    last.op = "GetObjectByID" =>
      LET m == Matching(last.pre, IDPattern(last.arg))
      IN  /\ m = {} => last.err = "object not found" /\ last.out = <<>>
          /\ Cardinality(m) > 1
             => /\ last.err = "multiple objects with the same ID"
                /\ last.out = <<>>
          /\ Cardinality(m) = 1
             => /\ last.err = "nil"
                /\ Len(last.out) = 1
                /\ \A k \in m : SameButID(last.out[1], RecordOf(last.pre, k))

\* an id pattern matched two keys and the call returned the error
C8_Witness ==
    /\ last.op = "GetObjectByID"
    /\ Cardinality(Matching(last.pre, IDPattern(last.arg))) = 2
    /\ last.err = "multiple objects with the same ID"

-----------------------------------------------------------------------------
(* C9 *)

\* C9: idempotent delete.  DeleteObject(id) for an id no stored record has
\* succeeds and leaves the backend as it was; after DeleteObject(id) of a
\* stored record succeeded, GetObjectByID(id) returns an error and another
\* DeleteObject(id) succeeds and changes nothing.  (Stated for backends
\* whose records all have a non-empty name.)
C9_IdempotentDelete ==
    (/\ last.op = "DeleteObject"
     /\ \A k \in DOMAIN last.pre : ValidName(last.pre[k]["name"]))
    => /\ EntriesOf(last.pre, last.arg) = {}
          => last.err = "nil" /\ backend = last.pre
       /\ (EntriesOf(last.pre, last.arg) # {} /\ last.err = "nil")
          => /\ \A r \in GetByIDOutcomes(backend, last.arg) : r.err # "nil"
             /\ \A d \in DeleteOutcomes(backend, last.arg) :
                  d.err = "nil" /\ d.b = backend

-----------------------------------------------------------------------------
(* C10 *)

\* C10: frame of DeleteObject.  With exactly one key matching the id
\* pattern, DeleteObject succeeds, removes that key, and every other key
\* keeps its value; with more than one key matching, it returns "multiple
\* objects with the same ID" and removes nothing.
C10_DeleteFrame ==
    last.op = "DeleteObject" =>
      LET m == Matching(last.pre, IDPattern(last.arg))
      IN  /\ Cardinality(m) = 1
             => /\ last.err = "nil"
                /\ DOMAIN backend = DOMAIN last.pre \ m
                /\ \A k \in DOMAIN backend : backend[k] = last.pre[k]
          /\ Cardinality(m) > 1
             => /\ last.err = "multiple objects with the same ID"
                /\ backend = last.pre

\* one of two entries was deleted and the other is still there
C10_Witness ==
    /\ last.op = "DeleteObject"
    /\ Cardinality(Matching(last.pre, IDPattern(last.arg))) = 1
    /\ Cardinality(DOMAIN last.pre) = 2
    /\ Cardinality(DOMAIN backend) = 1

-----------------------------------------------------------------------------
(* C11 *)

\* the keys of backend b whose record has the kind label kind
KindKeys(b, kind) == {k \in DOMAIN b : GetKind(RecordOf(b, k)) = kind}

\* C11: empty-result contract.  GetObjectsByName(n) for a non-empty n that
\* is the name of no stored record, and ListObjects(k) for a non-empty k
\* that is the kind of no stored record, return no error and no objects.
C11_EmptyResult ==
    /\ (/\ last.op = "GetObjectsByName"
        /\ last.arg # Empty
        /\ NamedKeys(last.pre, last.arg) = {})
       => last.err = "nil" /\ last.out = <<>>
    /\ (/\ last.op = "ListObjects"
        /\ last.arg # Empty
        /\ KindKeys(last.pre, last.arg) = {})
       => last.err = "nil" /\ last.out = <<>>

-----------------------------------------------------------------------------
(* C12 *)

\* C12: query input validation.  GetObjectsByName("") and ListObjects("")
\* return an error and no objects, and GetObjectByID("") returns an error
\* and no object, whatever the backend holds.
C12_QueryValidation ==
    (/\ last.op \in {"GetObjectsByName", "ListObjects", "GetObjectByID"}
     /\ last.arg = Empty)
    => last.err # "nil" /\ last.out = <<>>

\* the empty name was refused while the backend held two entries
C12_Witness ==
    /\ last.op = "GetObjectsByName"
    /\ last.arg = Empty
    /\ last.err = "invalid request. empty name"
    /\ Cardinality(DOMAIN last.pre) = 2

-----------------------------------------------------------------------------
(* C13 *)

\* the errors of the validations of Store, GetObjectsByName and ListObjects
ValidationErrors ==
    {"missing object name", "missing object kind",
     "unexpected restricted delimiter in the key",
     "invalid request. empty name", "invalid request. empty kind"}

\* C13: validation failures are raised before any backend call.  When
\* Store, GetObjectsByName or ListObjects returns one of the validation
\* errors, the call has issued no backend call and the backend is as it
\* was; and a Store that fails on a sound backend fails with one of them.
C13_ValidationBeforeBackend ==
    /\ last.err \in ValidationErrors
       => last.calls = 0 /\ backend = last.pre
    /\ (last.op = "Store" /\ last.err # "nil" /\ ~faulty)
       => last.err \in ValidationErrors

\* Store refused an Animal whose name holds the delimiter, with an entry in
\* the backend, and had issued no backend call
C13_Witness ==
    /\ last.op = "Store"
    /\ last.in.typ = "Animal"
    /\ last.err = "unexpected restricted delimiter in the key"
    /\ last.calls = 0
    /\ Cardinality(DOMAIN backend) = 1

-----------------------------------------------------------------------------
(* C14 *)

\* C14: cancellation.  An operation called with a cancelled context returns
\* an error and no objects, and leaves the backend as it was.
C14_CancellationHonoured ==
    (last.op # "none" /\ last.ctx = "cancelled")
    => /\ last.err # "nil"
       /\ last.out = <<>>
       /\ backend = last.pre

-----------------------------------------------------------------------------
(* C15 *)

\* C15: SetName(s) returns an error and leaves the record as it was exactly
\* when s contains "::"; for every other s, the empty string and strings
\* with single colons among them, it returns no error and the record has
\* the name s and its other fields as before.
C15_SetName ==
    last.op = "SetName" =>
      /\ last.err # "nil" <=> Contains(last.arg, Delim)
      /\ last.err # "nil" => rec = last.in
      /\ last.err = "nil"
         => /\ GetName(rec) = last.arg
            /\ rec.typ = last.in.typ
            /\ \A k \in FieldsOf(rec.typ) \ {"name"} : rec.f[k] = last.in.f[k]
      /\ last.arg \in {Empty, <<"a", "b", ":", "c", ":">>}
         => last.err = "nil"
      /\ last.arg = <<"a", "b", ":", ":", "c">> => last.err # "nil"

\* an Animal named "a:" was refused the name "ab::c" and kept its name
C15_Witness ==
    /\ last.op = "SetName"
    /\ last.arg = <<"a", "b", ":", ":", "c">>
    /\ last.err # "nil"
    /\ rec.typ = "Animal"
    /\ GetName(rec) = <<"a", ":">>
    /\ GetName(last.in) = <<"a", ":">>

-----------------------------------------------------------------------------
(* C16 *)

\* the concrete type the kind segment of a key names, "nil" for a kind that
\* is no known type's
KindType(key) ==
    IF getKind(key) = GetKind(ZeroObject("Person")) THEN "Person"
    ELSE IF getKind(key) = GetKind(ZeroObject("Animal")) THEN "Animal"
    ELSE "nil"

\* C16: per-key type recovery in batches.  In the result of a successful
\* GetObjectsByName or ListObjects there is one object per matched key, and
\* each object is of the concrete type that the kind segment of its own key
\* names, also when the matched keys are of both kinds.  (Stated for
\* backends whose records all have a non-empty name.)
C16_PerKeyType ==
    (/\ last.op \in {"GetObjectsByName", "ListObjects"}
     /\ last.err = "nil"
     /\ \A k \in DOMAIN last.pre : ValidName(last.pre[k]["name"]))
    => /\ Len(last.out) = Len(last.keys)
       /\ \A i \in 1..Len(last.out) : last.out[i].typ = KindType(last.keys[i])

-----------------------------------------------------------------------------
(* C17 *)

\* C17: key-form invariant.  Every key of the backend holds "::" exactly
\* twice (counted as Store counts) and is id::name::kind for the id, the
\* name and the kind of the record whose payload is stored under it.
\* (Stated for the entries of records with a non-empty name.)
C17_KeyForm ==
    \A k \in DOMAIN backend :
      ValidName(backend[k]["name"])
      => /\ Count(k, Delim) = 2
         /\ k = KeyOf(GetID(RecordOf(backend, k)), RecordOf(backend, k))

-----------------------------------------------------------------------------
(* C18 *)

\* the keys the scan of a batch call matched
ScannedKeys(call) ==
    Matching(call.pre, IF call.op = "GetObjectsByName"
                       THEN NamePattern(call.arg)
                       ELSE KindPattern(call.arg))

\* the payload under key k of backend b cannot be deserialized
Undeserializable(b, k) == KindType(k) = "nil" \/ b[k] = Malformed

\* every record of backend b that can be read has a non-empty name free of
\* the delimiter
ValidNames(b) ==
    \A k \in DOMAIN b : b[k] = Malformed \/ ValidName(b[k]["name"])

\* C18: fail-fast batch.  GetObjectsByName and ListObjects return no objects
\* next to an error (a failed fetch among them); and when the payload of a
\* matched key cannot be deserialized, they return an error.
\* (Stated for backends whose records all have a non-empty name.)
C18_FailFast ==
    (/\ last.op \in {"GetObjectsByName", "ListObjects"}
     /\ last.arg # Empty
     /\ ValidNames(last.pre))
    => /\ last.err # "nil" => last.out = <<>>
       /\ (\E k \in ScannedKeys(last) : Undeserializable(last.pre, k))
          => last.err # "nil" /\ last.out = <<>>

-----------------------------------------------------------------------------
(* C19 *)

\* C19: exact id matching.  A successful GetObjectByID(id) has read only an
\* entry whose key carries the id id, and DeleteObject(id) removes only
\* entries whose key carries the id id, for ids with a wildcard too.
C19_ExactID ==
    /\ (last.op = "GetObjectByID" /\ last.err = "nil")
       => \A i \in 1..Len(last.keys) : KeyID(last.keys[i]) = last.arg
    /\ last.op = "DeleteObject"
       => \A k \in DOMAIN last.pre \ DOMAIN backend : KeyID(k) = last.arg

-----------------------------------------------------------------------------
(* C20 *)

\* C20: name query precision.  A successful GetObjectsByName(n) with a
\* non-empty n returns only records whose stored name is n: every key it
\* read holds a payload with the name n, and every object reports n.
C20_NamePrecision ==
    (/\ last.op = "GetObjectsByName"
     /\ last.arg # Empty
     /\ last.err = "nil")
    => /\ \A i \in 1..Len(last.keys) :
            last.pre[last.keys[i]]["name"] = last.arg
       /\ \A i \in 1..Len(last.out) : GetName(last.out[i]) = last.arg

-----------------------------------------------------------------------------
(* C23 *)

\* C23: a failed Store leaves the caller's record untouched.  When Store
\* returns an error the record has the id it had before the call; and
\* whenever Store has changed the id of the record, an entry is stored under
\* the new id.
C23_FailedStoreKeepsID ==
    last.op = "Store" =>
      /\ last.err # "nil" => GetID(rec) = GetID(last.in)
      /\ GetID(rec) # GetID(last.in) => EntriesOf(backend, GetID(rec)) # {}

-----------------------------------------------------------------------------
(* C24 *)

\* the text after the last occurrence of "::" in key, "" when key holds none
AfterLastDelim(key) ==
    LET at == {i \in 1..Len(key) : OccursAt(key, Delim, i)}
    IN  IF at = {} THEN Empty
        ELSE Tail_(key, (CHOOSE i \in at : \A j \in at : j <= i) + Len(Delim))

\* C24: kind extraction.  getKind(key) returns the text after the last
\* occurrence of "::" in key, the empty text when key holds no "::"; and for
\* a key that Store has written for a record it returns the kind label of
\* that record.
C24_KindExtraction ==
    last.op = "getKind" =>
      /\ last.out[1] = AfterLastDelim(last.arg)
      /\ last.in # NoObject => last.out[1] = GetKind(last.in)

-----------------------------------------------------------------------------
(* C21 *)

Readers == {"GetObjectByID", "GetObjectsByName", "ListObjects"}

\* C21: a read raced by a delete.  When another caller's DeleteObject has
\* removed a key between a reader's key scan and the end of its fetches, and
\* the reader returns without error, then it returns one object for every
\* key its scan matched, and each is the complete record stored under that
\* key, of that record's type.
C21_ReadDeleteRace ==
    \A c \in Callers :
      LET r == run[c]
      IN  (r.op \in Readers /\ r.pc = "done" /\ r.raced /\ r.err = "nil") =>
            /\ Len(r.out) = Len(r.keys)
            /\ \A i \in 1..Len(r.keys) : r.out[i] = RecordOf(r.pre, r.keys[i])

-----------------------------------------------------------------------------
(* C22 *)

\* every DeleteObject that has returned has returned success, and no entry
\* of its id is left
C22_DeletesDone ==
    \A c \in Callers :
      (run[c].op = "DeleteObject" /\ run[c].pc = "done") =>
        /\ run[c].err = "nil"
        /\ EntriesOf(backend, run[c].arg) = {}

\* an entry goes away or changes only in the DEL step of a DeleteObject of
\* its id
C22_OthersKept ==
    \A k \in DOMAIN backend :
      \/ k \in DOMAIN backend' /\ backend'[k] = backend[k]
      \/ \E c \in Callers :
           /\ run[c].op = "DeleteObject"
           /\ run[c].pc = "del"
           /\ run'[c].pc = "done"
           /\ run[c].arg = KeyID(k)

\* C22: concurrent deletes.  In every interleaving of the scan and delete
\* steps of two callers' DeleteObject(id) for a stored id, both calls return
\* success and the entry of id is absent afterwards; every other entry,
\* whether stored before or by a Store in between, stays as it is.
C22_ConcurrentDeletes == []C22_DeletesDone /\ [][C22_OthersKept]_vars

\* both callers' scans found the entry of the id, both have issued DEL and
\* returned, and an entry that another Store wrote is still there
C22_Witness ==
    /\ \A c \in Callers :
         /\ run[c].op = "DeleteObject"
         /\ run[c].pc = "done"
         /\ run[c].arg = NewID(1)
         /\ Len(run[c].keys) = 1
    /\ EntriesOf(backend, NewID(1)) = {}
    /\ EntriesOf(backend, NewID(2)) # {}

=============================================================================
